---- MODULE Spec2Model ----
(***************************************************************************)
(* Model of src/app.py: the block reshaper process_data and its cell       *)
(* cleaner clean_val.                                                      *)
(*                                                                         *)
(* Spec       process_data as a state machine: load, one step per          *)
(*            respondent row of df.iterrows(), return.                     *)
(* SpecClean  clean_val as a pure function of one raw cell, applied once   *)
(*            and then again to its own result.                            *)
(***************************************************************************)
EXTENDS Integers, Sequences, FiniteSets, TLC

VARIABLES
    pc,                  \* position in process_data / in the cleaning run
    uploaded_file,       \* the upload: extension, readability, header width, row count
    metadata_cols,       \* parameter: caller's metadata column names
    questions_per_block, \* parameter: block size
    total_blocks,        \* parameter: block count
    case_type,           \* parameter: "Normal Case" or "KDMC CASE"
    df,                  \* rows of the table iterated so far
    output_rows,         \* the list output_rows
    max_rows_log,        \* max_rows computed in each completed iteration, in order
    result,              \* what process_data returned
    st_error,            \* whether st.error was called
    exc,                 \* the exception that left process_data / clean_val
    raw,                 \* SpecClean: the raw cell
    cleaned,             \* SpecClean: clean_val(raw)
    recleaned            \* SpecClean: clean_val(clean_val(raw))

vars == <<pc, uploaded_file, metadata_cols, questions_per_block, total_blocks,
          case_type, df, output_rows, max_rows_log, result, st_error, exc,
          raw, cleaned, recleaned>>

(***************************************************************************)
(* Bounds                                                                  *)
(***************************************************************************)
MaxLen == 4          \* longest text cell, in characters
MaxNum == 8          \* largest magnitude of an integer cell
MaxBlockSize == 2    \* largest questions_per_block
SmallBlocks == 2     \* largest total_blocks of the small tables
MaxBlocks == 18      \* largest total_blocks of the wide tables
MaxCells == 3        \* most answer columns of the small tables
MaxRespondents == 2  \* most rows of a small table

\* blocks[17], the 18th block, of the KDMC rule
KdmcBlock == 17

(***************************************************************************)
(* Raw cells.  A text cell is a sequence of characters; a float cell is    *)
(* mant / 10^scale with a sign; "inf" is the float infinity; "missing" is  *)
(* NaN / an empty cell.                                                    *)
(***************************************************************************)
Chars == {" ", "-", ".", "0", "7", "a", "i", "n", "f"}
Digits == {"0", "7"}

TextCell(s) == [kind |-> "text", chars |-> s]
IntCell(n) == [kind |-> "int", val |-> n]
FloatCell(neg, mant, scale) == [kind |-> "float", neg |-> neg, mant |-> mant, scale |-> scale]
InfCell(neg) == [kind |-> "inf", neg |-> neg]
Missing == [kind |-> "missing"]

RECURSIVE Pow10(_)
Pow10(k) == IF k = 0 THEN 1 ELSE 10 * Pow10(k - 1)

DigitVal(c) == IF c = "7" THEN 7 ELSE 0

\* row[question_cols].astype('object').fillna(0): a missing cell becomes the int 0
fillna(x) == IF x.kind = "missing" THEN IntCell(0) ELSE x

\* str.strip(): drop leading and trailing whitespace
RECURSIVE lstrip(_)
lstrip(s) == IF s # <<>> /\ Head(s) = " " THEN lstrip(Tail(s)) ELSE s

RECURSIVE rstrip(_)
rstrip(s) ==
    IF s # <<>> /\ s[Len(s)] = " " THEN rstrip(SubSeq(s, 1, Len(s) - 1)) ELSE s

strip(s) == rstrip(lstrip(s))

\* value of a digit string read as a decimal integer
RECURSIVE DigitsVal(_)
DigitsVal(s) ==
    IF s = <<>> THEN 0 ELSE 10 * DigitsVal(SubSeq(s, 1, Len(s) - 1)) + DigitVal(s[Len(s)])

AllDigits(s) == \A k \in 1..Len(s) : s[k] \in Digits

\* the floats float() reads from text: finite, infinite, nan; or ValueError
ValueErr == [kind |-> "ValueError"]
NanFloat == [kind |-> "nan"]

\* float(str) on the unsigned body of a numeral
ParseBody(neg, b) ==
    IF b = <<"i", "n", "f">> THEN InfCell(neg)
    ELSE IF b = <<"n", "a", "n">> THEN NanFloat
    ELSE IF b = <<>> THEN ValueErr
    ELSE LET dots == {k \in 1..Len(b) : b[k] = "."}
         IN  IF dots = {} THEN
                 IF AllDigits(b) THEN FloatCell(neg, DigitsVal(b), 0) ELSE ValueErr
             ELSE IF Cardinality(dots) > 1 THEN ValueErr
             ELSE LET d == CHOOSE k \in dots : TRUE
                      ip == SubSeq(b, 1, d - 1)
                      fp == SubSeq(b, d + 1, Len(b))
                  IN  IF AllDigits(ip) /\ AllDigits(fp) /\ Len(ip) + Len(fp) > 0
                      THEN FloatCell(neg, DigitsVal(ip \o fp), Len(fp))
                      ELSE ValueErr

\* float(x) for a str x: surrounding whitespace is ignored, one optional sign
FloatOfText(s) ==
    LET t == strip(s)
    IN  IF t # <<>> /\ Head(t) = "-" THEN ParseBody(TRUE, Tail(t)) ELSE ParseBody(FALSE, t)

\* float(x), line 78; a missing cell is the float NaN
float(x) ==
    IF x.kind = "text" THEN FloatOfText(x.chars)
    ELSE IF x.kind = "int" THEN FloatCell(x.val < 0, IF x.val < 0 THEN -x.val ELSE x.val, 0)
    ELSE IF x.kind = "missing" THEN NanFloat
    ELSE x

\* a rounding variant: int(float(x) + 0.5)
IntOfFloatRoundHalf(f) ==
    LET twice == (IF f.neg THEN -2 * f.mant ELSE 2 * f.mant) + Pow10(f.scale)
        den == 2 * Pow10(f.scale)
    IN  IF twice >= 0 THEN twice \div den ELSE -((-twice) \div den)

\* int(f) of a finite float, line 78: truncation toward zero
IntOfFloat(f) ==
    LET q == f.mant \div Pow10(f.scale) IN IF f.neg THEN -q ELSE q

Returned(n) == [exc |-> "none", val |-> n]
Raised(e) == [exc |-> e, val |-> 0]

\* clean_val, lines 74-80: strip, int(float(x)), 0 on ValueError / TypeError;
\* int() of an infinity raises OverflowError, which the except clause does not name
clean_val(x) ==
    LET f == float(x)
    IN  IF f.kind = "ValueError" THEN Returned(0)
        ELSE IF f.kind = "nan" THEN Returned(0)
        ELSE IF f.kind = "inf" THEN Raised("OverflowError")
        ELSE Returned(IntOfFloat(f))

(***************************************************************************)
(* process_data                                                            *)
(***************************************************************************)
Min(a, b) == IF a < b THEN a ELSE b

RECURSIVE SeqMax(_)
SeqMax(s) ==
    IF Len(s) = 1 THEN s[1]
    ELSE LET m == SeqMax(Tail(s)) IN IF s[1] > m THEN s[1] ELSE m

RECURSIVE Flatten(_)
Flatten(ss) == IF ss = <<>> THEN <<>> ELSE Head(ss) \o Flatten(Tail(ss))

Range(s) == {s[k] : k \in 1..Len(s)}

\* the header of every readable table: one metadata column, then the answer columns
MetaHeader == <<"ID">>

\* the caller's choices of metadata_cols: present, absent, partly absent
MetadataChoices == {<<"ID">>, <<"File">>, <<"ID", "File">>}

CaseTypes == {"Normal Case", "KDMC CASE"}

Seven == TextCell(<<"7">>)

Inf == TextCell(<<"i", "n", "f">>)

\* raw answer cells of the small tables
RawAnswers == {Missing, Seven}

\* a table row: the value of its ID column and its answer cells, left to right
Row(id, cells) == [ID |-> id, cells |-> cells]

\* all cell values of a row in column order
RowValues(row) == <<IntCell(row.ID)>> \o row.cells

\* line 67 and line 72: the cells of df.columns[len(metadata_cols):]
QuestionCells(row) ==
    LET all == RowValues(row)
    IN  [k \in 1..(IF Len(all) > Len(metadata_cols)
                   THEN Len(all) - Len(metadata_cols) ELSE 0)
            |-> all[k + Len(metadata_cols)]]

\* line 71: row[metadata_cols] raises KeyError when a name is not a column
MetadataPresent == \A k \in 1..Len(metadata_cols) : metadata_cols[k] \in Range(MetaHeader)

\* line 71: row[metadata_cols].to_dict()
Metadata(row) == [c \in Range(metadata_cols) |-> row.ID]

\* line 72 and line 82: answers_raw.apply(clean_val), one result per cell
CleanResults(row) ==
    LET q == QuestionCells(row) IN [k \in 1..Len(q) |-> clean_val(fillna(q[k]))]

CleanRaises(row) ==
    \E k \in 1..Len(QuestionCells(row)) : CleanResults(row)[k].exc # "none"

Answers(row) ==
    LET r == CleanResults(row) IN [k \in 1..Len(r) |-> r[k].val]

\* the slice taken with its end included
ILocInclusive(answers, start, end) ==
    LET hi == Min(end + 1, Len(answers))
    IN  [k \in 1..(IF hi > start THEN hi - start ELSE 0) |-> answers[start + k]]

\* answers.iloc[start:end].tolist(): positions start..end-1 (0-based), clipped
ILoc(answers, start, end) ==
    LET hi == Min(end, Len(answers))
    IN  [k \in 1..(IF hi > start THEN hi - start ELSE 0) |-> answers[start + k]]

\* lines 85-90
Blocks(answers) ==
    [b \in 1..total_blocks |->
        ILoc(answers, (b - 1) * questions_per_block,
             (b - 1) * questions_per_block + questions_per_block)]

\* sum(1 for val in block if val != 0)
CountNonZero(block) == Cardinality({k \in 1..Len(block) : block[k] # 0})

\* the KDMC rule reading the 17th block in place of the 18th
MaxRowsBlock17(ct, blocks) ==
    IF ct = "KDMC CASE" /\ Len(blocks) > KdmcBlock
    THEN CountNonZero(blocks[1]) + CountNonZero(blocks[KdmcBlock])
    ELSE IF blocks # <<>>
         THEN SeqMax([b \in 1..Len(blocks) |-> CountNonZero(blocks[b])])
         ELSE 0

\* the fallback rule summing the blocks' counts in place of taking their maximum
MaxRowsSum(ct, blocks) ==
    IF ct = "KDMC CASE" /\ Len(blocks) > KdmcBlock
    THEN CountNonZero(blocks[1]) + CountNonZero(blocks[KdmcBlock + 1])
    ELSE IF blocks # <<>>
         THEN CountNonZero(Flatten(blocks))
         ELSE 0

\* lines 93-98, for case_type ct
MaxRows(ct, blocks) ==
    IF ct = "KDMC CASE" /\ Len(blocks) > KdmcBlock
    THEN CountNonZero(blocks[1]) + CountNonZero(blocks[KdmcBlock + 1])
    ELSE IF blocks # <<>>
         THEN SeqMax([b \in 1..Len(blocks) |-> CountNonZero(blocks[b])])
         ELSE 0

\* lines 102-104: the output row of index i (0-based)
NewRow(metadata, blocks, i) ==
    [meta |-> metadata,
     Q |-> [j \in 1..Len(blocks) |->
              IF i < Len(blocks[j]) THEN blocks[j][i + 1] ELSE 0]]

\* lines 92-105: the rows one respondent appends under case_type ct, in index order
Expand(ct, row) ==
    LET blocks == Blocks(Answers(row))
    IN  [i \in 1..MaxRows(ct, blocks) |-> NewRow(Metadata(row), blocks, i - 1)]

\* the new rows put in front of the list
PrependRows(out, rows) == rows \o out

\* line 105, once per generated row
AppendRows(out, rows) == out \o rows

(***************************************************************************)
(* The uploaded file                                                       *)
(***************************************************************************)
File(ext, readable, n_answers, n_rows) ==
    [ext |-> ext, readable |-> readable, n_answers |-> n_answers, n_rows |-> n_rows]

\* rows of the small tables: every cell free, and at most one cell reading "inf"
SmallCells(n) ==
    [1..n -> RawAnswers]
        \cup {[c EXCEPT ![k] = Inf] : c \in [1..n -> RawAnswers], k \in 1..n}

SmallFiles ==
    {File("csv", TRUE, n, r) : n \in 0..MaxCells, r \in 0..MaxRespondents}

\* files the loader rejects or cannot read
BadFiles == {File("txt", TRUE, 0, 0), File("csv", FALSE, 0, 0), File("xls", FALSE, 0, 0)}

IsWide(file) == file.n_answers > MaxCells

\* wide tables: answers only in block 0, block KdmcBlock and one more block
OtherBlocks == {1, KdmcBlock - 1, KdmcBlock + 1}

ProbeCols(n, o) ==
    {k \in 1..n : ((k - 1) \div questions_per_block) \in {0, KdmcBlock, o}}

WideCells(n) ==
    UNION {{[k \in 1..n |-> IF k \in marks THEN Seven ELSE Missing] :
                marks \in SUBSET ProbeCols(n, o)} : o \in OtherBlocks}

\* the rows df.iterrows() can yield next
NextRows ==
    LET n == uploaded_file.n_answers
        id == Len(df) + 1
    IN  IF IsWide(uploaded_file)
        THEN {Row(id, c) : c \in WideCells(n)}
        ELSE {Row(id, c) : c \in SmallCells(n)}

InitParams ==
    /\ metadata_cols \in MetadataChoices
    /\ case_type \in CaseTypes
    /\ questions_per_block \in 1..MaxBlockSize
    /\ \/ /\ total_blocks \in 1..SmallBlocks
          /\ uploaded_file \in SmallFiles \cup BadFiles
       \/ /\ total_blocks \in KdmcBlock..MaxBlocks
          /\ \E short \in 0..1, r \in 0..1 :
                uploaded_file =
                    File("xlsx", TRUE, questions_per_block * total_blocks - short, r)

Init ==
    /\ InitParams
    /\ pc = "load"
    /\ df = <<>>
    /\ output_rows = <<>>
    /\ max_rows_log = <<>>
    /\ result = "unset"
    /\ st_error = FALSE
    /\ exc = "none"
    /\ raw = Missing
    /\ cleaned = Returned(0)
    /\ recleaned = Returned(0)

params == <<uploaded_file, metadata_cols, questions_per_block, total_blocks, case_type>>
cleaning == <<raw, cleaned, recleaned>>

\* lines 52-68
Load ==
    /\ pc = "load"
    /\ IF uploaded_file.ext \notin {"csv", "xlsx", "xls"} \/ ~uploaded_file.readable
       THEN /\ st_error' = TRUE
            /\ result' = "None"
            /\ pc' = "done"
       ELSE /\ pc' = "iterate"
            /\ UNCHANGED <<st_error, result>>
    /\ UNCHANGED <<params, cleaning, df, output_rows, max_rows_log, exc>>

\* lines 70-105: one iteration of the loop over df.iterrows()
IterateRow ==
    /\ pc = "iterate"
    /\ Len(df) < uploaded_file.n_rows
    /\ \E row \in NextRows :
        /\ df' = Append(df, row)
        /\ IF ~MetadataPresent
           THEN /\ exc' = "KeyError"
                /\ pc' = "raised"
                /\ UNCHANGED <<output_rows, max_rows_log>>
           ELSE IF CleanRaises(row)
           THEN /\ exc' = "OverflowError"
                /\ pc' = "raised"
                /\ UNCHANGED <<output_rows, max_rows_log>>
           ELSE /\ output_rows' = AppendRows(output_rows, Expand(case_type, row))
                /\ max_rows_log' =
                       Append(max_rows_log, MaxRows(case_type, Blocks(Answers(row))))
                /\ UNCHANGED <<exc, pc>>
    /\ UNCHANGED <<params, cleaning, result, st_error>>

\* lines 107-110
Return ==
    /\ pc = "iterate"
    /\ Len(df) = uploaded_file.n_rows
    /\ result' = IF output_rows = <<>> THEN "empty DataFrame" ELSE "DataFrame"
    /\ pc' = "done"
    /\ UNCHANGED <<params, cleaning, df, output_rows, max_rows_log, st_error, exc>>

Next == Load \/ IterateRow \/ Return

Spec == Init /\ [][Next]_vars

(***************************************************************************)
(* clean_val alone: one raw cell, cleaned, and its result cleaned again    *)
(***************************************************************************)
Texts == UNION {[1..n -> Chars] : n \in 0..MaxLen}

RawCells ==
    {TextCell(s) : s \in Texts}
        \cup {IntCell(n) : n \in (-MaxNum)..MaxNum}
        \cup {FloatCell(neg, m, 1) : neg \in BOOLEAN, m \in 0..(10 * MaxNum)}
        \cup {InfCell(TRUE), InfCell(FALSE), Missing}

InitClean ==
    /\ pc = "clean"
    /\ raw \in RawCells
    /\ cleaned = Returned(0)
    /\ recleaned = Returned(0)
    /\ exc = "none"
    /\ uploaded_file = File("csv", TRUE, 0, 0)
    /\ metadata_cols = <<"ID">>
    /\ questions_per_block = 1
    /\ total_blocks = 1
    /\ case_type = "Normal Case"
    /\ df = <<>>
    /\ output_rows = <<>>
    /\ max_rows_log = <<>>
    /\ result = "unset"
    /\ st_error = FALSE

table == <<df, output_rows, max_rows_log, result, st_error>>

\* clean_val(x), lines 74-80
CleanOnce ==
    /\ pc = "clean"
    /\ cleaned' = clean_val(raw)
    /\ exc' = cleaned'.exc
    /\ pc' = IF cleaned'.exc = "none" THEN "cleaned" ELSE "raised"
    /\ UNCHANGED <<params, table, raw, recleaned>>

\* clean_val applied to the integer clean_val returned
CleanAgain ==
    /\ pc = "cleaned"
    /\ recleaned' = clean_val(IntCell(cleaned.val))
    /\ exc' = recleaned'.exc
    /\ pc' = IF recleaned'.exc = "none" THEN "recleaned" ELSE "raised"
    /\ UNCHANGED <<params, table, raw, cleaned>>

NextClean == CleanOnce \/ CleanAgain

SpecClean == InitClean /\ [][NextClean]_vars

(***************************************************************************)
(* Vocabulary of the properties.  Respondent k is df[k]; its max_rows is   *)
(* max_rows_log[k]; its output rows follow those of respondents 1..k-1.    *)
(***************************************************************************)
RECURSIVE SumTo(_, _)
SumTo(s, n) == IF n = 0 THEN 0 ELSE s[n] + SumTo(s, n - 1)

SetMax(S) == CHOOSE m \in S : \A x \in S : x <= m

Respondents == 1..Len(max_rows_log)

\* index in output_rows of row index i (0-based) of respondent k
OutIndex(k, i) == SumTo(max_rows_log, k - 1) + i + 1

\* the cleaned value of the answer cell at 0-based offset off
CleanedAt(row, off) == clean_val(fillna(row.cells[off + 1])).val

InRow(row, off) == off < Len(row.cells)

\* 0-based positions of block j (0-based) holding a non-zero cleaned value
Marked(row, j) ==
    {p \in 0..(questions_per_block - 1) :
        /\ InRow(row, j * questions_per_block + p)
        /\ CleanedAt(row, j * questions_per_block + p) # 0}

\* 1-based position of the last non-zero value of block j, 0 for an all-zero block
LastNonZero(row, j) ==
    IF Marked(row, j) = {} THEN 0 ELSE SetMax(Marked(row, j)) + 1

BlockIndexes == 0..(total_blocks - 1)

KdmcApplies == case_type = "KDMC CASE" /\ total_blocks > KdmcBlock

\* C1: in NORMAL mode the max_rows of every respondent is the largest, over the
\* blocks, of the 1-based position of the block's last non-zero cleaned value.
C1_MaxRowsIsLastPosition ==
    case_type = "Normal Case" =>
        \A k \in Respondents :
            max_rows_log[k] = SetMax({LastNonZero(df[k], j) : j \in BlockIndexes})

\* C2: in KDMC mode with more than 17 blocks max_rows is the number of non-zero
\* values of block 0 plus that of block 17, whatever the other blocks hold; in
\* KDMC mode with at most 17 blocks the returned output is the NORMAL-mode output.
C2_KdmcRule ==
    /\ KdmcApplies =>
         \A k \in Respondents :
            max_rows_log[k] =
                Cardinality(Marked(df[k], 0)) + Cardinality(Marked(df[k], KdmcBlock))
    /\ (case_type = "KDMC CASE" /\ total_blocks <= KdmcBlock /\ pc = "done") =>
         output_rows = Flatten([k \in Respondents |-> Expand("Normal Case", df[k])])

\* a KDMC respondent with rows whose other blocks hold more answers than it has rows
C2_Witness ==
    /\ KdmcApplies
    /\ pc = "done"
    /\ Len(max_rows_log) = 1
    /\ max_rows_log[1] > 0
    /\ \E j \in BlockIndexes \ {0, KdmcBlock} :
          Cardinality(Marked(df[1], j)) > max_rows_log[1]

\* C3: row i of a respondent has exactly the fields Q1..Q{block count}, and Q{j+1}
\* is the cleaned cell at offset j*block_size + i when i < block_size and the
\* offset is inside the answer cells, else 0.
C3_PositionalSlices ==
    /\ Len(output_rows) = SumTo(max_rows_log, Len(max_rows_log))
    /\ \A k \in Respondents : \A i \in 0..(max_rows_log[k] - 1) :
          LET r == output_rows[OutIndex(k, i)]
          IN  /\ DOMAIN r.Q = 1..total_blocks
              /\ \A j \in BlockIndexes :
                    r.Q[j + 1] =
                        IF /\ i < questions_per_block
                           /\ InRow(df[k], j * questions_per_block + i)
                        THEN CleanedAt(df[k], j * questions_per_block + i)
                        ELSE 0

\* output exists although the blocks ask for more cells than the row has
C3_Witness ==
    /\ pc = "done"
    /\ questions_per_block * total_blocks > uploaded_file.n_answers
    /\ \E n \in 1..Len(output_rows) : \E j \in BlockIndexes :
          /\ output_rows[n].Q[j + 1] # 0
          /\ j + 1 < total_blocks

RowsOf(k) == {n \in 1..Len(output_rows) : output_rows[n].meta["ID"] = df[k].ID}

\* C5 as stated: every respondent has max_rows output rows and
\* 0 <= max_rows <= block size, in both modes.
C5_MaxRowsWithinBlockSize ==
    \A k \in Respondents :
        /\ Cardinality(RowsOf(k)) = max_rows_log[k]
        /\ 0 <= max_rows_log[k]
        /\ max_rows_log[k] <= questions_per_block

\* C5 amended: every respondent has max_rows output rows; 0 <= max_rows <= block
\* size under the NORMAL rule, 0 <= max_rows <= 2 * block size under the KDMC rule.
C5_MaxRowsBounded ==
    \A k \in Respondents :
        /\ Cardinality(RowsOf(k)) = max_rows_log[k]
        /\ 0 <= max_rows_log[k]
        /\ max_rows_log[k] <=
              IF KdmcApplies THEN 2 * questions_per_block ELSE questions_per_block

\* a KDMC respondent with twice the block size of rows
C5_Witness ==
    /\ KdmcApplies
    /\ Len(max_rows_log) = 1
    /\ max_rows_log[1] = 2 * questions_per_block
    /\ Len(output_rows) = 2 * questions_per_block

\* C6: cleaning never fails: whatever the raw cell, clean_val returns an integer,
\* and it returns 0 for a missing cell and for text that is no number.
C6_CleaningNeverFails ==
    /\ pc # "raised"
    /\ (/\ pc \in {"cleaned", "recleaned"}
        /\ \/ raw.kind = "missing"
           \/ raw.kind = "text" /\ FloatOfText(raw.chars).kind \in {"ValueError", "nan"})
          => cleaned = Returned(0)

\* C7: a rejected or unreadable file, or a metadata column missing from the
\* header, ends the invocation with an error and without an output table,
\* whatever the number of rows.
C7_ErrorsReturnNoTable ==
    (/\ pc \in {"done", "raised"}
     /\ \/ uploaded_file.ext \notin {"csv", "xlsx", "xls"}
        \/ ~uploaded_file.readable
        \/ ~MetadataPresent)
        => \/ result = "None" /\ st_error
           \/ pc = "raised" /\ exc # "none" /\ result = "unset"

\* C8: every cleaned value is >= 0.
C8_CleanedNonNegative == pc \in {"cleaned", "recleaned"} => cleaned.val >= 0

\* C9: cleaning the cleaned value returns it unchanged, and does not fail.
C9_CleanIdempotent ==
    /\ pc = "recleaned" => recleaned = cleaned
    /\ pc = "raised" => cleaned.exc # "none"

\* a negative fraction, truncated, then cleaned again
C9_Witness ==
    /\ pc = "recleaned"
    /\ raw.kind = "float"
    /\ raw.neg
    /\ raw.mant % 10 # 0
    /\ cleaned.val < 0

\* C10: in NORMAL mode every non-zero cleaned value v at position p of block j is
\* in the output: the respondent has a row of index p and its Q{j+1} is v.
C10_NoMarkedAnswerLost ==
    case_type = "Normal Case" =>
        \A k \in Respondents : \A j \in BlockIndexes : \A p \in Marked(df[k], j) :
            /\ p < max_rows_log[k]
            /\ output_rows[OutIndex(k, p)].Q[j + 1] =
                  CleanedAt(df[k], j * questions_per_block + p)

====
